---- MODULE Spec2Model ----
(***************************************************************************)
(* A model of snl/inference/abc.py: the three ABC samplers Rejection, MCMC *)
(* and SMC, with the distance function calc_dist they share.               *)
(*                                                                         *)
(* Reals.  Distances and tolerances are non-negative extended reals.  A    *)
(* value is a pair <<n, d>> standing for n/d in lowest terms, and <<1, 0>> *)
(* stands for float("inf").  Comparison by cross-multiplication gives the  *)
(* IEEE ordering on these values (inf < inf and inf > inf are both false). *)
(* NaN does not arise: calc_dist of finite data is finite, and of None is  *)
(* inf.                                                                    *)
(*                                                                         *)
(* Collaborators.  prior.gen, prior.eval, sim_model and the rng are the    *)
(* caller's: each call returns any value of a small set.  sim_model may    *)
(* return None (a failed simulation).                                      *)
(***************************************************************************)
EXTENDS Integers, Sequences, FiniteSets, TLC

VARIABLES
    sampler,          \* which run() this behaviour is: "Rejection", "MCMC", "SMC"
    pc,               \* position in the run
    \* ---- names shared by the run() methods
    ps,               \* Rejection: accepted draws; MCMC: the chain; SMC: the population
    eps,              \* the tolerance
    n_samples, info,  \* arguments of Rejection.run and MCMC.run
    n_sims, n_accepted,
    i,                \* the index of the running for loop
    \* ---- Rejection.run
    dist,             \* the recorded distances (info only)
    acc_dist,         \* history: the distance of the draw that put ps[k] into ps
    \* ---- MCMC
    init_ps, cur_ps, cur_log_prior, cur_dist, step,
    last,             \* history: what the latest step of the chain drew and did
    \* ---- SMC.run
    n_particles, n_initial_round, eps_decay, n_sims_budget,
    log_weights, all_ps, all_log_weights, all_eps, all_log_ess, all_n_sims,
    ps_dist,          \* history: the distance of the simulation behind ps[k]
    \* ---- SMC.sample_initial_population / sample_next_population
    ds, new_ps, new_log_weights, n_new_sims, prop_dist,
    new_dist          \* history: the distance of the simulation behind new_ps[k]

common_vars == <<sampler, pc, ps, eps, n_samples, info, n_sims, n_accepted, i>>
rej_vars    == <<dist, acc_dist>>
mcmc_vars   == <<init_ps, cur_ps, cur_log_prior, cur_dist, step, last>>
smc_vars    == <<n_particles, n_initial_round, eps_decay, n_sims_budget,
                 log_weights, all_ps, all_log_weights, all_eps, all_log_ess,
                 all_n_sims, ps_dist, ds, new_ps, new_log_weights, n_new_sims,
                 prop_dist, new_dist>>
vars == <<common_vars, rej_vars, mcmc_vars, smc_vars>>

----------------------------------------------------------------------------
(* Bounds of the model *)

MaxDist == 1          \* finite distances are 0 .. MaxDist
MaxSamples == 2       \* n_samples of Rejection.run and MCMC.run
MaxRejSims == 4       \* cap on the draws of Rejection.run's unbounded loop
MaxParticles == 2     \* n_particles of SMC.run
MaxInitialRound == 3  \* n_initial_round of SMC.run
MaxBudget == 5        \* n_sims_budget of SMC.run
MaxSims == 7          \* cap on the simulations of one SMC run
MaxIter == 3          \* cap on the entries of the SMC history
MaxStep == 1          \* step of MCMC.run is 0 .. MaxStep
MaxLogPrior == 1      \* finite log-densities are -MaxLogPrior .. 0
MaxLogRand == 2       \* log of rng.rand() is -inf or -MaxLogRand .. -1

----------------------------------------------------------------------------
(* Extended non-negative reals *)

RECURSIVE Gcd(_, _)
Gcd(a, b) == IF b = 0 THEN a ELSE Gcd(b, a % b)

Inf == <<1, 0>>
Real(n) == <<n, 1>>
Norm(n, d) ==
    IF d = 0 THEN Inf
    ELSE IF n = 0 THEN <<0, 1>>
    ELSE <<n \div Gcd(n, d), d \div Gcd(n, d)>>

LT(a, b) == a[1] * b[2] < b[1] * a[2]
GT(a, b) == LT(b, a)
LE(a, b) == a = b \/ LT(a, b)
IsFinite(a) == a[2] # 0

\* a * b in floating point, for b a finite positive factor: inf * b = inf
Mul(a, b) == Norm(a[1] * b[1], a[2] * b[2])

FiniteDists == {Real(n) : n \in 0 .. MaxDist}
Dists == FiniteDists \cup {Inf}

\* Parameter vectors have one component.  The samplers only copy and compare
\* them, so two values are as good as any number.
Thetas == {0, 1}

\* Data vectors have one component: <<x>>.  None is sim_model's failed
\* simulation.
None == << >>
Datas == {<<x>> : x \in 0 .. MaxDist} \cup {None}
obs_data == <<0>>

Abs(x) == IF x < 0 THEN -x ELSE x

\* the euclidean distance of two data vectors: sqrt(diff . diff) = |diff|
calc_dist(data_1, data_2) ==
    IF data_1 = None \/ data_2 = None
    THEN Inf
    ELSE Real(Abs(data_1[1] - data_2[1]))

----------------------------------------------------------------------------
(* Idle values of the variables a sampler does not use *)

RejIdle ==
    /\ dist = << >> /\ acc_dist = << >>

McmcIdle ==
    /\ init_ps = 0 /\ cur_ps = 0 /\ cur_log_prior = 0 /\ cur_dist = None
    /\ step = 0 /\ last = << >>

SmcIdle ==
    /\ n_particles = 0 /\ n_initial_round = 0 /\ eps_decay = Real(1)
    /\ n_sims_budget = 0 /\ log_weights = << >>
    /\ all_ps = << >> /\ all_log_weights = << >> /\ all_eps = << >>
    /\ all_log_ess = << >> /\ all_n_sims = << >> /\ ps_dist = << >>
    /\ ds = << >> /\ new_ps = << >> /\ new_log_weights = << >>
    /\ n_new_sims = 0 /\ prop_dist = Inf /\ new_dist = << >>

----------------------------------------------------------------------------
(* Rejection.run *)

\* a draw at distance eps is accepted too
RejAcceptsAtEps(prop_dist_, eps_) == LE(prop_dist_, eps_)

\* line 55: the acceptance test of a draw
RejAccepts(prop_dist_, eps_) == LT(prop_dist_, eps_)

\* line 48: the loop test
RejContinue(n_accepted_, n_samples_) == n_accepted_ < n_samples_

RejInit ==
    /\ sampler = "Rejection"
    /\ pc = "loop"
    /\ ps = << >>
    /\ dist = << >>
    /\ acc_dist = << >>
    /\ n_sims = 0
    /\ n_accepted = 0
    /\ i = 0
    /\ eps \in Dists
    /\ n_samples \in 0 .. MaxSamples
    /\ info \in BOOLEAN
    /\ McmcIdle /\ SmcIdle

\* one pass of the while loop, lines 48-66
RejDraw ==
    /\ sampler = "Rejection" /\ pc = "loop"
    /\ RejContinue(n_accepted, n_samples)
    /\ n_sims < MaxRejSims
    /\ \E prop_ps \in Thetas, prop_data \in Datas :
         LET d == calc_dist(prop_data, obs_data)
             acc == RejAccepts(d, eps)
         IN  /\ n_sims' = n_sims + 1
             /\ ps' = IF acc THEN Append(ps, prop_ps) ELSE ps
             /\ acc_dist' = IF acc THEN Append(acc_dist, d) ELSE acc_dist
             /\ n_accepted' = IF acc THEN n_accepted + 1 ELSE n_accepted
             /\ dist' = IF info THEN Append(dist, d) ELSE dist
    /\ UNCHANGED <<sampler, pc, eps, n_samples, info, i, mcmc_vars, smc_vars>>

\* lines 68-71
RejReturn ==
    /\ sampler = "Rejection" /\ pc = "loop"
    /\ ~RejContinue(n_accepted, n_samples)
    /\ pc' = "done"
    /\ UNCHANGED <<sampler, ps, eps, n_samples, info, n_sims, n_accepted, i,
                   rej_vars, mcmc_vars, smc_vars>>

RejNext == RejDraw \/ RejReturn

SpecRejection == RejInit /\ [][RejNext]_vars

----------------------------------------------------------------------------
(* MCMC *)

\* Log-densities: a finite value <<"fin", v>> or log(0) = -inf.  The values of
\* rng.rand(), which lie in [0, 1), are held by their logarithms, so that
\* u < exp(d) is log u < d.
NegInf == <<"-inf", 0>>
Fin(v) == <<"fin", v>>
LogPriors == {Fin(-v) : v \in 0 .. MaxLogPrior} \cup {NegInf}
LogRands == {Fin(-v) : v \in 1 .. MaxLogRand} \cup {NegInf}
Randn == {-1, 0, 1}

\* a proposal at distance eps passes the tolerance test too
WithinEpsAtEps(prop_dist_, eps_) == LE(prop_dist_, eps_)

\* line 114: the tolerance test of a proposal
WithinEps(prop_dist_, eps_) == LT(prop_dist_, eps_)

\* line 118: rng.rand() < np.exp(prop_log_prior - cur_log_prior).
\* -inf - -inf is nan and every comparison with nan is false; x - -inf is
\* +inf; -inf - x is -inf, whose exp is 0.
MetropolisTest(log_u, prop_log_prior, cur_log_prior_) ==
    IF prop_log_prior = NegInf THEN FALSE
    ELSE IF cur_log_prior_ = NegInf THEN TRUE
    ELSE IF log_u = NegInf THEN TRUE
    ELSE log_u[2] < prop_log_prior[2] - cur_log_prior_[2]

\* lines 79-84 and 100-105
McmcInit ==
    /\ sampler = "MCMC"
    /\ pc = "loop"
    /\ init_ps \in Thetas
    /\ cur_ps = init_ps
    /\ cur_log_prior \in LogPriors
    /\ ps = << >>
    /\ n_accepted = 0
    /\ cur_dist = None
    /\ i = 0
    /\ last = << >>
    /\ eps \in Dists
    /\ step \in 0 .. MaxStep
    /\ n_samples \in 0 .. MaxSamples
    /\ info \in BOOLEAN
    /\ n_sims = 0
    /\ RejIdle /\ SmcIdle

\* one pass of the for loop, lines 107-131.  The progress message formats
\* cur_dist with {1:.3}, which raises TypeError while cur_dist is still None.
McmcStep ==
    /\ sampler = "MCMC" /\ pc = "loop"
    /\ i < n_samples
    /\ \E z \in Randn, prop_data \in Datas, prop_log_prior \in LogPriors,
          log_u \in LogRands :
         LET prop_ps == cur_ps + step * z
             d == calc_dist(prop_data, obs_data)
             within == WithinEps(d, eps)
             acc == within /\ MetropolisTest(log_u, prop_log_prior, cur_log_prior)
             new_cur_dist == IF acc THEN d ELSE cur_dist
         IN  \* prior.eval and rng.rand are called only inside the if
             /\ ~within => (prop_log_prior = NegInf /\ log_u = NegInf)
             /\ cur_ps' = IF acc THEN prop_ps ELSE cur_ps
             /\ cur_log_prior' = IF acc THEN prop_log_prior ELSE cur_log_prior
             /\ cur_dist' = new_cur_dist
             /\ n_accepted' = IF acc THEN n_accepted + 1 ELSE n_accepted
             /\ ps' = Append(ps, cur_ps')
             /\ last' = [prop_ps |-> prop_ps, prop_dist |-> d, within |-> within,
                         log_u |-> log_u, prop_log_prior |-> prop_log_prior,
                         cur_log_prior |-> cur_log_prior, accepted |-> acc]
             /\ i' = i + 1
             /\ pc' = IF new_cur_dist = None THEN "error" ELSE "loop"
    /\ UNCHANGED <<sampler, eps, n_samples, info, n_sims, init_ps, step,
                   rej_vars, smc_vars>>

\* lines 133-139: acc_rate divides by n_samples
McmcReturn ==
    /\ sampler = "MCMC" /\ pc = "loop"
    /\ ~(i < n_samples)
    /\ pc' = IF n_samples = 0 THEN "error" ELSE "done"
    /\ UNCHANGED <<sampler, ps, eps, n_samples, info, n_sims, n_accepted, i,
                   rej_vars, mcmc_vars, smc_vars>>

McmcNext == McmcStep \/ McmcReturn

SpecMCMC == McmcInit /\ [][McmcNext]_vars

----------------------------------------------------------------------------
(* SMC *)

\* eps_decay of SMC.run: the caller keeps it strictly between 0 and 1
Decays == {<<1, 2>>, <<2, 3>>}

\* an element of np.empty_like(ps) that was never written
Uninit == -1

\* snl.util.math.discrete_sample(p): an index of p, counted from 1 here
discrete_sample(p) == 1 .. Len(p)

\* snl.util.math.discrete_sample(p, n_samples): an array of n_samples indices
\* of p.  (For n_samples = 1 it returns a bare index; a population of one
\* particle never gets as far as being resampled, its cholesky fails.)
discrete_sample_n(p, n_samples_) == [1 .. n_samples_ -> 1 .. Len(p)]

\* np.full(n_particles, -log_n_particles), lines 185 and 220
UniformLogWeights(n_particles_) == [k \in 1 .. n_particles_ |-> "uniform"]

\* np.argsort(ds): position r holds the index of the r-th smallest distance
\* (arrays this short are sorted by insertion, which keeps ties in order)
SortIdx(ds_) ==
    LET Before(k, j) == LT(ds_[k], ds_[j]) \/ (ds_[k] = ds_[j] /\ k < j)
        Rank(j) == Cardinality({k \in 1 .. Len(ds_) : Before(k, j)}) + 1
    IN  [r \in 1 .. Len(ds_) |-> CHOOSE j \in 1 .. Len(ds_) : Rank(j) = r]

\* lines 273 and 276: int(n_particles / n_initial_round * n_initial_round).
\* The floating-point product is exact for every pair within the bounds (the
\* first pair it rounds below n_particles for is 15 / 22).
NQuantile(n_particles_, n_initial_round_) ==
    (n_particles_ * n_initial_round_) \div n_initial_round_

\* np.max(np.array(ds)), line 282
RECURSIVE MaxOf(_)
MaxOf(ds_) ==
    IF Len(ds_) = 1 THEN ds_[1]
    ELSE LET m == MaxOf(Tail(ds_)) IN IF LT(ds_[1], m) THEN m ELSE ds_[1]

\* lines 272-283: the population, its distances and eps_init.  Index
\* n_quantile of the sorted array is, counting from 1, n_quantile + 1.
InitialPopulation(ps_, ds_, n_particles_, n_initial_round_) ==
    IF n_initial_round_ > n_particles_
    THEN LET sortidx == SortIdx(ds_)
             n_quantile == NQuantile(n_particles_, n_initial_round_)
         IN  [ps |-> [k \in 1 .. n_quantile |-> ps_[sortidx[k]]],
              ps_dist |-> [k \in 1 .. n_quantile |-> ds_[sortidx[k]]],
              eps_init |-> ds_[sortidx[n_quantile + 1]]]
    ELSE [ps |-> ps_, ps_dist |-> ds_, eps_init |-> MaxOf(ds_)]

\* an iteration is started with the budget exactly used up
BudgetLeftOrUsedUp(n_sims_, n_sims_budget_) == n_sims_ <= n_sims_budget_

\* line 199: the loop test of SMC.run
BudgetLeft(n_sims_, n_sims_budget_) == n_sims_ < n_sims_budget_

\* line 235: the test of the closing break
ReachedBudget(n_sims_, n_sims_budget_) == n_sims_ >= n_sims_budget_

\* the tolerance is left as it was
DecayEpsForgotten(eps_, eps_decay_) == eps_

\* line 203
DecayEps(eps_, eps_decay_) == Mul(eps_, eps_decay_)

\* line 306: the test of the proposal loop
ProposeAgain(dist_, eps_) == GT(dist_, eps_)

\* line 297: np.linalg.cholesky(cov) of the one-dimensional population, whose
\* cov is twice its variance: it raises LinAlgError unless cov > 0
CholeskyFails(ps_) == \A j, k \in 1 .. Len(ps_) : ps_[j] = ps_[k]

\* line 320: log_weights + log_kernel broadcasts only shapes that are equal
\* or of which one is 1
Broadcasts(n_log_weights, n_log_kernel) ==
    n_log_weights = n_log_kernel \/ n_log_weights = 1 \/ n_log_kernel = 1

\* lines 335-337: ps[idx] for an array idx of n_particles indices
resample_population(ps_, idx) == [k \in 1 .. Len(idx) |-> ps_[idx[k]]]

\* one index too many is drawn
ResampleCountLong(ps_) == Len(ps_) + 1

\* line 335: the number of indices resample_population draws
ResampleCount(ps_) == Len(ps_)

SmcInit ==
    /\ sampler = "SMC"
    /\ pc = "initial"
    /\ n_particles \in 1 .. MaxParticles
    /\ n_initial_round \in 1 .. MaxInitialRound
    /\ n_sims_budget \in 1 .. MaxBudget
    /\ eps_decay \in Decays
    /\ ps = << >> /\ ds = << >> /\ n_sims = 0 /\ i = 0
    /\ eps = Inf
    /\ log_weights = << >>
    /\ all_ps = << >> /\ all_log_weights = << >> /\ all_eps = << >>
    /\ all_log_ess = << >> /\ all_n_sims = << >>
    /\ ps_dist = << >> /\ new_ps = << >> /\ new_log_weights = << >>
    /\ n_new_sims = 0 /\ prop_dist = Inf /\ new_dist = << >>
    /\ n_samples = 0 /\ info = FALSE /\ n_accepted = 0
    /\ RejIdle /\ McmcIdle

\* one pass of the for loop of sample_initial_population, lines 259-270
SmcInitialDraw ==
    /\ sampler = "SMC" /\ pc = "initial"
    /\ i < n_initial_round
    /\ \E prop_ps \in Thetas, data \in Datas :
         /\ ps' = Append(ps, prop_ps)
         /\ ds' = Append(ds, calc_dist(data, obs_data))
    /\ n_sims' = n_sims + 1
    /\ i' = i + 1
    /\ UNCHANGED <<sampler, pc, eps, n_samples, info, n_accepted, rej_vars,
                   mcmc_vars, n_particles, n_initial_round, eps_decay,
                   n_sims_budget, log_weights, all_ps, all_log_weights, all_eps,
                   all_log_ess, all_n_sims, ps_dist, new_ps, new_log_weights,
                   n_new_sims, prop_dist, new_dist>>

\* the return of sample_initial_population, lines 272-283, and SMC.run up to
\* its loop, lines 184-197.  The locals of the call end with it.
SmcInitialReturn ==
    /\ sampler = "SMC" /\ pc = "initial"
    /\ ~(i < n_initial_round)
    /\ LET pop == InitialPopulation(ps, ds, n_particles, n_initial_round)
           lw == UniformLogWeights(n_particles)
       IN  /\ ps' = pop.ps
           /\ ps_dist' = pop.ps_dist
           /\ eps' = pop.eps_init
           /\ log_weights' = lw
           /\ all_ps' = Append(all_ps, pop.ps)
           /\ all_log_weights' = Append(all_log_weights, lw)
           /\ all_eps' = Append(all_eps, pop.eps_init)
           /\ all_log_ess' = Append(all_log_ess, "zero")
           /\ all_n_sims' = Append(all_n_sims, n_sims)
    /\ ds' = << >>
    /\ i' = 0
    /\ pc' = "loop"
    /\ UNCHANGED <<sampler, n_samples, info, n_sims, n_accepted, rej_vars,
                   mcmc_vars, n_particles, n_initial_round, eps_decay,
                   n_sims_budget, new_ps, new_log_weights, n_new_sims,
                   prop_dist, new_dist>>

\* the loop test fails, lines 199 and 239
SmcRunReturn ==
    /\ sampler = "SMC" /\ pc = "loop"
    /\ ~BudgetLeft(n_sims, n_sims_budget)
    /\ pc' = "done"
    /\ UNCHANGED <<sampler, ps, eps, n_samples, info, n_sims, n_accepted, i,
                   rej_vars, mcmc_vars, smc_vars>>

\* lines 199-207 and the head of sample_next_population, lines 290-300.
\* No handler catches LinAlgError: the run ends with it.
SmcBeginIteration ==
    /\ sampler = "SMC" /\ pc = "loop"
    /\ BudgetLeft(n_sims, n_sims_budget)
    /\ Len(all_eps) < MaxIter
    /\ eps' = DecayEps(eps, eps_decay)
    /\ n_new_sims' = 0
    /\ i' = 0
    /\ prop_dist' = Inf
    /\ new_ps' = [k \in 1 .. Len(ps) |-> Uninit]
    /\ new_dist' = [k \in 1 .. Len(ps) |-> None]
    /\ new_log_weights' = [k \in 1 .. Len(log_weights) |-> "empty"]
    /\ pc' = IF CholeskyFails(ps) THEN "error" ELSE "next"
    /\ UNCHANGED <<sampler, ps, n_samples, info, n_sims, n_accepted, rej_vars,
                   mcmc_vars, n_particles, n_initial_round, eps_decay,
                   n_sims_budget, log_weights, all_ps, all_log_weights, all_eps,
                   all_log_ess, all_n_sims, ps_dist, ds>>

\* one pass of the proposal loop, lines 306-311.  discrete_sample draws an
\* index of weights, which has one entry per log-weight; ps[idx] raises
\* IndexError past the last particle.  std . randn is any real, so the
\* proposal is any parameter value.
SnpPropose ==
    /\ sampler = "SMC" /\ pc = "next"
    /\ i < Len(ps)
    /\ ProposeAgain(prop_dist, eps)
    /\ n_sims + n_new_sims < MaxSims
    /\ \E idx \in discrete_sample(log_weights), prop_ps \in Thetas,
          data \in Datas :
         IF idx > Len(ps)
         THEN /\ pc' = "error"
              /\ UNCHANGED <<new_ps, new_dist, prop_dist, n_new_sims>>
         ELSE /\ pc' = "next"
              /\ new_ps' = [new_ps EXCEPT ![i + 1] = prop_ps]
              /\ new_dist' = [new_dist EXCEPT ![i + 1] = calc_dist(data, obs_data)]
              /\ prop_dist' = calc_dist(data, obs_data)
              /\ n_new_sims' = n_new_sims + 1
    /\ UNCHANGED <<sampler, ps, eps, n_samples, info, n_sims, n_accepted, i,
                   rej_vars, mcmc_vars, n_particles, n_initial_round, eps_decay,
                   n_sims_budget, log_weights, all_ps, all_log_weights, all_eps,
                   all_log_ess, all_n_sims, ps_dist, ds, new_log_weights>>

\* the proposal loop of slot i ends and the slot's weight is computed, lines
\* 306 and 314-320; then the for loop goes to the next slot, lines 302-304.
\* A slot whose loop never ran keeps what np.empty_like left in it.
SnpWeight ==
    /\ sampler = "SMC" /\ pc = "next"
    /\ i < Len(ps)
    /\ ~ProposeAgain(prop_dist, eps)
    /\ IF Broadcasts(Len(log_weights), Len(ps)) /\ i < Len(new_log_weights)
       THEN /\ \E garbage \in Thetas :
                 new_ps' = IF new_ps[i + 1] = Uninit
                           THEN [new_ps EXCEPT ![i + 1] = garbage]
                           ELSE new_ps
            /\ new_log_weights' = [new_log_weights EXCEPT ![i + 1] = "kernel"]
            /\ i' = i + 1
            /\ prop_dist' = Inf
            /\ pc' = "next"
       ELSE /\ pc' = "error"
            /\ UNCHANGED <<new_ps, new_log_weights, i, prop_dist>>
    /\ UNCHANGED <<sampler, ps, eps, n_samples, info, n_sims, n_accepted,
                   rej_vars, mcmc_vars, n_particles, n_initial_round, eps_decay,
                   n_sims_budget, log_weights, all_ps, all_log_weights, all_eps,
                   all_log_ess, all_n_sims, ps_dist, ds, n_new_sims, new_dist>>

\* the return of sample_next_population, lines 325-327, and the rest of the
\* iteration in SMC.run, lines 209-237.  log_ess depends on the prior's
\* densities and ess_min is the caller's: the population is degenerate or not.
\* The locals of sample_next_population end with the call.
SmcCompleteIteration ==
    /\ sampler = "SMC" /\ pc = "next"
    /\ ~(i < Len(ps))
    /\ \E degenerate \in BOOLEAN,
          idx \in discrete_sample_n(new_log_weights, ResampleCount(new_ps)) :
         LET total == n_sims + n_new_sims
             bad_idx == \E k \in DOMAIN idx : idx[k] > Len(new_ps)
             pop == IF degenerate THEN resample_population(new_ps, idx) ELSE new_ps
             pop_dist == IF degenerate
                         THEN resample_population(new_dist, idx)
                         ELSE new_dist
             lw == IF degenerate
                   THEN UniformLogWeights(n_particles)
                   ELSE new_log_weights
         IN  \* discrete_sample is called only to resample
             /\ ~degenerate => idx = [k \in DOMAIN idx |-> 1]
             /\ n_sims' = total
             /\ IF degenerate /\ bad_idx
                THEN /\ pc' = "error"
                     /\ ps' = new_ps
                     /\ ps_dist' = new_dist
                     /\ log_weights' = new_log_weights
                     /\ UNCHANGED <<all_ps, all_log_weights, all_eps,
                                    all_log_ess, all_n_sims>>
                ELSE /\ ps' = pop
                     /\ ps_dist' = pop_dist
                     /\ log_weights' = lw
                     /\ all_ps' = Append(all_ps, pop)
                     /\ all_log_weights' = Append(all_log_weights, lw)
                     /\ all_eps' = Append(all_eps, eps)
                     /\ all_log_ess' =
                          Append(all_log_ess, IF degenerate THEN "low" ELSE "ok")
                     /\ all_n_sims' = Append(all_n_sims, total)
                     /\ pc' = IF ReachedBudget(total, n_sims_budget)
                              THEN "done" ELSE "loop"
    /\ new_ps' = << >> /\ new_dist' = << >> /\ new_log_weights' = << >>
    /\ n_new_sims' = 0 /\ i' = 0 /\ prop_dist' = Inf
    /\ UNCHANGED <<sampler, eps, n_samples, info, n_accepted, rej_vars,
                   mcmc_vars, n_particles, n_initial_round, eps_decay,
                   n_sims_budget, ds>>

SmcNext ==
    \/ SmcInitialDraw
    \/ SmcInitialReturn
    \/ SmcRunReturn
    \/ SmcBeginIteration
    \/ SnpPropose
    \/ SnpWeight
    \/ SmcCompleteIteration

SpecSMC == SmcInit /\ [][SmcNext]_vars

----------------------------------------------------------------------------
(* The claims *)

History == 1 .. Len(all_n_sims)

\* C1: every cumulative simulation count in the history SMC.run returns, and
\* the count when the run ends, is at most n_sims_budget.
C1_BudgetIsHardCap ==
    pc = "done" =>
        /\ n_sims <= n_sims_budget
        /\ \A k \in History : all_n_sims[k] <= n_sims_budget

\* C2: when one more proposal would take the simulation count past the
\* budget, sample_next_population aborts: SMC.run ends at once and its
\* history is the one it had.
C2_AbortsAtBudget ==
    [][(/\ pc = "next"
        /\ i < Len(ps)
        /\ ProposeAgain(prop_dist, eps)
        /\ n_sims + n_new_sims + 1 > n_sims_budget)
       => (/\ pc' = "done"
           /\ UNCHANGED <<all_ps, all_log_weights, all_eps, all_log_ess,
                          all_n_sims>>)]_vars

\* C3: no iteration of SMC.run starts once the simulation count has reached
\* the budget: every history entry but the last records a count below the
\* budget, and with n_initial_round >= n_sims_budget the returned history has
\* the initial entry only.
C3_StopsAtBudget ==
    /\ pc = "next" => n_sims < n_sims_budget
    /\ \A k \in History : k < Len(all_n_sims) => all_n_sims[k] < n_sims_budget
    /\ (pc = "done" /\ n_initial_round >= n_sims_budget) => Len(all_n_sims) = 1

\* a returned history of three entries, the last one at or past the budget
C3_Witness ==
    /\ sampler = "SMC" /\ pc = "done"
    /\ Len(all_n_sims) = 3
    /\ all_n_sims[3] >= n_sims_budget

\* C4: Rejection.run returns when n_samples draws have been accepted: the
\* result holds n_samples vectors, each from a draw whose distance was below
\* eps, after at least n_samples simulations, all of them recorded when info
\* is asked for.
C4_RejectionResult ==
    /\ Len(ps) = n_accepted
    /\ Len(acc_dist) = n_accepted
    /\ n_accepted <= n_samples
    /\ \A k \in DOMAIN acc_dist : LT(acc_dist[k], eps)
    /\ info => Len(dist) = n_sims
    /\ pc = "done" => (Len(ps) = n_samples /\ n_sims >= n_samples)

\* a returned result of two accepted draws after a rejected one, with info
C4_Witness ==
    /\ sampler = "Rejection" /\ pc = "done"
    /\ info
    /\ Len(ps) = 2
    /\ n_sims > 2

Pairs == 1 .. Len(all_eps) - 1

C7_PopulationSizeConstant ==
    \A k \in DOMAIN all_ps : Len(all_ps[k]) = Len(all_ps[1])

\* a returned history with one iteration that resampled and one that did not
C7_Witness ==
    /\ sampler = "SMC" /\ pc = "done"
    /\ \E j, k \in DOMAIN all_log_ess :
         all_log_ess[j] = "low" /\ all_log_ess[k] = "ok"

\* C8: a candidate whose simulation gave None (distance inf) is rejected by
\* every sampler: it is no accepted draw of Rejection, no current state of
\* MCMC and no particle of an SMC population.
C8_FailedSimulationRejected ==
    /\ \A k \in DOMAIN acc_dist : acc_dist[k] # Inf
    /\ cur_dist # Inf
    /\ \A k \in DOMAIN ps_dist : ps_dist[k] # Inf

\* C9: each slot sample_next_population has filled holds a proposal that was
\* simulated at a distance strictly below eps.
C9_SlotStrictlyBelowEps ==
    pc = "next" =>
        \A k \in 1 .. i : new_dist[k] # None /\ LT(new_dist[k], eps)

\* C10: every entry of the returned history has one log-weight per particle.
C10_OneLogWeightPerParticle ==
    pc = "done" =>
        \A k \in DOMAIN all_ps : Len(all_log_weights[k]) = Len(all_ps[k])

====
